---------------------------- MODULE Spec2Model ----------------------------
(***************************************************************************)
(* A model of tutorial_QGAN.ipynb: a three-wire quantum GAN whose          *)
(* discriminator is trained for 50 SGD steps and whose generator is then   *)
(* trained for 50 SGD steps.                                               *)
(*                                                                         *)
(* What is kept exactly: the gate sequences queued by real, generator and  *)
(* discriminator (kind, wires, and which weight index feeds which gate),   *)
(* the four QNodes, the order in which the cost functions call them, the   *)
(* two training loops, their progress reports, and the cells that follow.  *)
(*                                                                         *)
(* What is abstracted: real arithmetic.  An angle is a residue in          *)
(* 0..AngleLevels-1, the state vector of the device is the sequence of     *)
(* gates applied since the last reset (the empty sequence is |000>), an    *)
(* expectation value is the pair (observables, state it was read on), and  *)
(* the product learning_rate * gradient of one optimizer step is any       *)
(* element of DeltaSet.                                                    *)
(***************************************************************************)
EXTENDS Integers, Sequences, FiniteSets, TLC

VARIABLES
    init_gen_weights,   \* init_gen_weights  (cell 15)
    init_disc_weights,  \* init_disc_weights (cell 15)
    gen_weights,        \* tf.Variable gen_weights
    disc_weights,       \* tf.Variable disc_weights
    quiet_gen,          \* gen_weights of the same run with the progress report switched off
    quiet_disc,         \* disc_weights of the same run with the progress report switched off
    opt_iterations,     \* opt.iterations: optimizer steps applied so far
    pc,                 \* the cell being executed
    step,               \* the loop variable of the training loops
    stmt,               \* the statement of the cell being executed
    todo,               \* QNode calls the statement has still to make
    running,            \* the QNode being executed, or "none"
    tape,               \* the operations and observables that QNode queued
    gate_ix,            \* how many gates of the tape the device has applied
    dev_state,          \* the device's state: the gates applied since its last reset
    results,            \* the expectation values the statement has read so far
    reports,            \* progress lines printed so far
    error               \* the exception that ended the run, or "none"

vars == <<init_gen_weights, init_disc_weights, gen_weights, disc_weights,
          quiet_gen, quiet_disc, opt_iterations, pc, step, stmt, todo,
          running, tape, gate_ix, dev_state, results, reports, error>>

----------------------------------------------------------------------------
(* Bounds of the abstraction and constants of the program *)

AngleLevels == 3

NumWires == 3

NumParams == 9

NumStepsD == 50

NumStepsG == 50

ReportEveryD == 5

ReportEveryG == 5

Angle == 0 .. (AngleLevels - 1)

ParamIx == 0 .. (NumParams - 1)

phi == "pi/6"

theta == "pi/2"

omega == "pi/7"

----------------------------------------------------------------------------
(* Gates *)

NoIndex == 0 - 1

Hadamard(wire) ==
    [kind |-> "Hadamard", params |-> <<>>, idx |-> NoIndex, wires |-> <<wire>>]

RX(w, i, wire) ==
    [kind |-> "RX", params |-> <<w[i]>>, idx |-> i, wires |-> <<wire>>]

RY(w, i, wire) ==
    [kind |-> "RY", params |-> <<w[i]>>, idx |-> i, wires |-> <<wire>>]

RZ(w, i, wire) ==
    [kind |-> "RZ", params |-> <<w[i]>>, idx |-> i, wires |-> <<wire>>]

Rot(angles, wire) ==
    [kind |-> "Rot", params |-> angles, idx |-> NoIndex, wires |-> <<wire>>]

CNOT(control, target) ==
    [kind |-> "CNOT", params |-> <<>>, idx |-> NoIndex, wires |-> <<control, target>>]

PauliX(wire) == [pauli |-> "X", wire |-> wire]

PauliY(wire) == [pauli |-> "Y", wire |-> wire]

PauliZ(wire) == [pauli |-> "Z", wire |-> wire]

\* The operations a sub-circuit function queues, tagged with that function.
QueuedBy(name, ops) ==
    [k \in 1 .. Len(ops) |->
        [kind |-> ops[k].kind, params |-> ops[k].params, idx |-> ops[k].idx,
         wires |-> ops[k].wires, src |-> name]]

----------------------------------------------------------------------------
(* The three sub-circuits *)

real(angles) ==
    QueuedBy("real", << Hadamard(0), Rot(angles, 0) >>)

\* Variant of generator for sensitivity checks: w[6] feeds two gates, w[7] none.
generatorShared(w) ==
    QueuedBy("generator",
        << Hadamard(0),
           RX(w, 0, 0), RX(w, 1, 1),
           RY(w, 2, 0), RY(w, 3, 1),
           RZ(w, 4, 0), RZ(w, 5, 1),
           CNOT(0, 1),
           RX(w, 6, 0), RY(w, 6, 0), RZ(w, 8, 0) >>)

generator(w) ==
    QueuedBy("generator",
        << Hadamard(0),
           RX(w, 0, 0), RX(w, 1, 1),
           RY(w, 2, 0), RY(w, 3, 1),
           RZ(w, 4, 0), RZ(w, 5, 1),
           CNOT(0, 1),
           RX(w, 6, 0), RY(w, 7, 0), RZ(w, 8, 0) >>)

\* Variant of discriminator for sensitivity checks: the last gate is on wire 3.
discriminatorWire3(w) ==
    QueuedBy("discriminator",
        << Hadamard(0),
           RX(w, 0, 0), RX(w, 1, 2),
           RY(w, 2, 0), RY(w, 3, 2),
           RZ(w, 4, 0), RZ(w, 5, 2),
           CNOT(0, 2),
           RX(w, 6, 2), RY(w, 7, 2), RZ(w, 8, 3) >>)

discriminator(w) ==
    QueuedBy("discriminator",
        << Hadamard(0),
           RX(w, 0, 0), RX(w, 1, 2),
           RY(w, 2, 0), RY(w, 3, 2),
           RZ(w, 4, 0), RZ(w, 5, 2),
           CNOT(0, 2),
           RX(w, 6, 2), RY(w, 7, 2), RZ(w, 8, 2) >>)

----------------------------------------------------------------------------
(* The QNodes: what each queues when called *)

\* Variant of real_disc_circuit for sensitivity checks: discriminator first.
real_disc_circuitSwapped(p, t, o, dw) ==
    [gates |-> discriminator(dw) \o real(<<p, t, o>>),
     obs   |-> << PauliZ(2) >>]

real_disc_circuit(p, t, o, dw) ==
    [gates |-> real(<<p, t, o>>) \o discriminator(dw),
     obs   |-> << PauliZ(2) >>]

gen_disc_circuit(gw, dw) ==
    [gates |-> generator(gw) \o discriminator(dw),
     obs   |-> << PauliZ(2) >>]

obs == << PauliX(0), PauliY(0), PauliZ(0) >>

bloch_vector_real(angles) ==
    [gates |-> real(angles), obs |-> obs]

bloch_vector_generator(angles) ==
    [gates |-> generator(angles), obs |-> obs]

QNodes ==
    {"real_disc_circuit", "gen_disc_circuit",
     "bloch_vector_real", "bloch_vector_generator"}

Composite == {"real_disc_circuit", "gen_disc_circuit"}

\* The call sites: each QNode is called with the globals of the notebook.
Called(q, gw, dw) ==
    CASE q = "real_disc_circuit"      -> real_disc_circuit(phi, theta, omega, dw)
      [] q = "gen_disc_circuit"       -> gen_disc_circuit(gw, dw)
      [] q = "bloch_vector_real"      -> bloch_vector_real(<<phi, theta, omega>>)
      [] q = "bloch_vector_generator" -> bloch_vector_generator(gw)

EmptyTape == [gates |-> <<>>, obs |-> <<>>]

----------------------------------------------------------------------------
(* The device *)

ZeroState == <<>>

\* Variant of DeviceReset for sensitivity checks: the device is not reset.
DeviceKeep(state) == state

\* A QNode execution resets the device before it applies the tape.
DeviceReset(state) == ZeroState

RECURSIVE WiresOfOps(_)
WiresOfOps(ops) ==
    IF ops = <<>> THEN {}
    ELSE {Head(ops).wires[k] : k \in 1 .. Len(Head(ops).wires)}
            \cup WiresOfOps(Tail(ops))

WiresOfTape(t) ==
    WiresOfOps(t.gates) \cup {t.obs[k].wire : k \in 1 .. Len(t.obs)}

\* The device accepts a tape whose wires it has.
WiresValid(t) == \A w \in WiresOfTape(t) : w \in 0 .. (NumWires - 1)

----------------------------------------------------------------------------
(* Cost functions: the QNode calls each makes, in evaluation order *)

prob_real_true == << "real_disc_circuit" >>

prob_fake_true == << "gen_disc_circuit" >>

disc_cost == prob_fake_true \o prob_real_true

gen_cost == prob_fake_true

----------------------------------------------------------------------------
(* The optimizer *)

\* learning_rate * gradient of one step, as a vector of angle residues
DeltaSet == { [i \in ParamIx |-> d] : d \in Angle }

\* SGD: w <- w - learning_rate * gradient
ApplyGradients(w, delta) ==
    [i \in ParamIx |-> (w[i] + AngleLevels - delta[i]) % AngleLevels]

\* Variant of MinimizeD for sensitivity checks: every built variable is updated.
MinimizeDAll(gw, dw, delta) ==
    [gen |-> ApplyGradients(gw, delta), disc |-> ApplyGradients(dw, delta)]

\* opt.minimize(cost, [disc_weights])
MinimizeD(gw, dw, delta) ==
    [gen |-> gw, disc |-> ApplyGradients(dw, delta)]

\* Variant of MinimizeG for sensitivity checks: every built variable is updated.
MinimizeGAll(gw, dw, delta) ==
    [gen |-> ApplyGradients(gw, delta), disc |-> ApplyGradients(dw, delta)]

\* opt.minimize(cost, [gen_weights])
MinimizeG(gw, dw, delta) ==
    [gen |-> ApplyGradients(gw, delta), disc |-> dw]

\* Variant of ProgressReport for sensitivity checks: reporting moves disc_weights.
ProgressReportSteps(gw, dw) ==
    [gen |-> gw, disc |-> [i \in ParamIx |-> (dw[i] + 1) % AngleLevels]]

\* cost_val = cost().numpy(); print(...): what the weights are afterwards
ProgressReport(gw, dw) ==
    [gen |-> gw, disc |-> dw]

----------------------------------------------------------------------------
(* The cells, in order *)

Loops == {"phaseD", "phaseG"}

PrintCells ==
    {"printRealTrue", "printFakeTrue", "printFakeTrueG", "printDiscCost", "bloch"}

\* Variant of NextCell for sensitivity checks: the last cell leads back to Phase D.
NextCellAgain(p) ==
    CASE p = "phaseD"         -> "printRealTrue"
      [] p = "printRealTrue"  -> "printFakeTrue"
      [] p = "printFakeTrue"  -> "phaseG"
      [] p = "phaseG"         -> "printFakeTrueG"
      [] p = "printFakeTrueG" -> "printDiscCost"
      [] p = "printDiscCost"  -> "bloch"
      [] p = "bloch"          -> "phaseD"

NextCell(p) ==
    CASE p = "phaseD"         -> "printRealTrue"
      [] p = "printRealTrue"  -> "printFakeTrue"
      [] p = "printFakeTrue"  -> "phaseG"
      [] p = "phaseG"         -> "printFakeTrueG"
      [] p = "printFakeTrueG" -> "printDiscCost"
      [] p = "printDiscCost"  -> "bloch"
      [] p = "bloch"          -> "done"

\* The QNode calls of a cell's statement
CallsOf(p) ==
    CASE p = "phaseD"         -> disc_cost
      [] p = "printRealTrue"  -> prob_real_true
      [] p = "printFakeTrue"  -> prob_fake_true
      [] p = "phaseG"         -> gen_cost
      [] p = "printFakeTrueG" -> prob_fake_true
      [] p = "printDiscCost"  -> disc_cost
      [] p = "bloch"          -> << "bloch_vector_real", "bloch_vector_generator" >>

NumSteps(p) == IF p = "phaseD" THEN NumStepsD ELSE NumStepsG

ReportEvery(p) == IF p = "phaseD" THEN ReportEveryD ELSE ReportEveryG

Minimize(p, gw, dw, delta) ==
    IF p = "phaseD" THEN MinimizeD(gw, dw, delta) ELSE MinimizeG(gw, dw, delta)

\* Variant of OnError for sensitivity checks: the exception is swallowed and the cell goes on.
OnErrorRetry(p) == p

\* No try/except anywhere: an exception ends the run.
OnError(p) == "aborted"

ErrorKinds ==
    {"InvalidWire", "DimensionMismatch", "UnsupportedParameterSharing",
     "NonHermitianObservable"}

----------------------------------------------------------------------------
(* Initial state: cells 1-17 have run *)

\* [pi, 0, ..., 0] plus noise: the first entry differs from the others
InitGenSet == { [i \in ParamIx |-> IF i = 0 THEN a ELSE 0] : a \in Angle \ {0} }

\* the draw of np.random.normal(size=(9,)) under seed 0: one vector, entries not all equal
InitDiscSet == { [i \in ParamIx |-> i % AngleLevels] }

Init ==
    /\ init_gen_weights \in InitGenSet
    /\ init_disc_weights \in InitDiscSet
    /\ gen_weights = init_gen_weights
    /\ disc_weights = init_disc_weights
    /\ quiet_gen = init_gen_weights
    /\ quiet_disc = init_disc_weights
    /\ opt_iterations = 0
    /\ pc = "phaseD"
    /\ step = 0
    /\ stmt = "none"
    /\ todo = <<>>
    /\ running = "none"
    /\ tape = EmptyTape
    /\ gate_ix = 0
    /\ dev_state = ZeroState
    /\ results = <<>>
    /\ reports = 0
    /\ error = "none"

----------------------------------------------------------------------------
(* Actions *)

\* for step in range(50): opt.minimize(cost, [...]) begins by evaluating cost
StartMinimize ==
    /\ pc \in Loops
    /\ stmt = "none"
    /\ step < NumSteps(pc)
    /\ stmt' = "minimize"
    /\ todo' = CallsOf(pc)
    /\ results' = <<>>
    /\ UNCHANGED <<init_gen_weights, init_disc_weights, gen_weights, disc_weights,
                   quiet_gen, quiet_disc, opt_iterations, pc, step, running, tape,
                   gate_ix, dev_state, reports, error>>

\* range(50) is exhausted: the cell ends
LoopExit ==
    /\ pc \in Loops
    /\ stmt = "none"
    /\ step >= NumSteps(pc)
    /\ pc' = NextCell(pc)
    /\ UNCHANGED <<init_gen_weights, init_disc_weights, gen_weights, disc_weights,
                   quiet_gen, quiet_disc, opt_iterations, step, stmt, todo, running,
                   tape, gate_ix, dev_state, results, reports, error>>

\* A print cell begins to evaluate its argument
StartPrint ==
    /\ pc \in PrintCells
    /\ stmt = "none"
    /\ stmt' = "print"
    /\ todo' = CallsOf(pc)
    /\ results' = <<>>
    /\ UNCHANGED <<init_gen_weights, init_disc_weights, gen_weights, disc_weights,
                   quiet_gen, quiet_disc, opt_iterations, pc, step, running, tape,
                   gate_ix, dev_state, reports, error>>

\* The statement calls its next QNode: the circuit function is run to queue
\* the tape, the device checks the wires and is reset.
QNodeCall ==
    /\ stmt # "none"
    /\ running = "none"
    /\ todo # <<>>
    /\ LET t == Called(Head(todo), gen_weights, disc_weights) IN
        IF WiresValid(t)
        THEN /\ running' = Head(todo)
             /\ tape' = t
             /\ todo' = Tail(todo)
             /\ gate_ix' = 0
             /\ dev_state' = DeviceReset(dev_state)
             /\ UNCHANGED <<pc, stmt, results, error>>
        ELSE /\ error' = "InvalidWire"
             /\ pc' = OnError(pc)
             /\ stmt' = "none"
             /\ todo' = <<>>
             /\ results' = <<>>
             /\ UNCHANGED <<running, tape, gate_ix, dev_state>>
    /\ UNCHANGED <<init_gen_weights, init_disc_weights, gen_weights, disc_weights,
                   quiet_gen, quiet_disc, opt_iterations, step, reports>>

\* The device applies the next gate of the tape
ApplyGate ==
    /\ running # "none"
    /\ gate_ix < Len(tape.gates)
    /\ dev_state' = Append(dev_state, tape.gates[gate_ix + 1])
    /\ gate_ix' = gate_ix + 1
    /\ UNCHANGED <<init_gen_weights, init_disc_weights, gen_weights, disc_weights,
                   quiet_gen, quiet_disc, opt_iterations, pc, step, stmt, todo,
                   running, tape, results, reports, error>>

\* return qml.expval(...): the observables are read on the final state
Measure ==
    /\ running # "none"
    /\ gate_ix = Len(tape.gates)
    /\ results' = Append(results,
                    [qnode |-> running, obs |-> tape.obs, state |-> dev_state])
    /\ running' = "none"
    /\ tape' = EmptyTape
    /\ gate_ix' = 0
    /\ UNCHANGED <<init_gen_weights, init_disc_weights, gen_weights, disc_weights,
                   quiet_gen, quiet_disc, opt_iterations, pc, step, stmt, todo,
                   dev_state, reports, error>>

\* opt.minimize: the gradient is taken and applied to the variables of
\* var_list; then `if step % 5 == 0` decides whether the iteration reports.
\* The quiet run takes the same step: its gradient is the same whenever its
\* weights are.
FinishMinimize ==
    /\ stmt = "minimize"
    /\ running = "none"
    /\ todo = <<>>
    /\ \E delta \in DeltaSet, qdelta \in DeltaSet :
        /\ (quiet_gen = gen_weights /\ quiet_disc = disc_weights) => qdelta = delta
        /\ LET new == Minimize(pc, gen_weights, disc_weights, delta)
               qnew == Minimize(pc, quiet_gen, quiet_disc, qdelta)
           IN /\ gen_weights' = new.gen
              /\ disc_weights' = new.disc
              /\ quiet_gen' = qnew.gen
              /\ quiet_disc' = qnew.disc
    /\ opt_iterations' = opt_iterations + 1
    /\ results' = <<>>
    /\ IF step % ReportEvery(pc) = 0
       THEN /\ stmt' = "report"
            /\ todo' = CallsOf(pc)
            /\ step' = step
       ELSE /\ stmt' = "none"
            /\ todo' = <<>>
            /\ step' = step + 1
    /\ UNCHANGED <<init_gen_weights, init_disc_weights, pc, running, tape, gate_ix,
                   dev_state, reports, error>>

\* cost_val = cost().numpy(); print("Step {}: cost = {}") and the next iteration
FinishReport ==
    /\ stmt = "report"
    /\ running = "none"
    /\ todo = <<>>
    /\ LET after == ProgressReport(gen_weights, disc_weights) IN
        /\ gen_weights' = after.gen
        /\ disc_weights' = after.disc
    /\ reports' = reports + 1
    /\ step' = step + 1
    /\ stmt' = "none"
    /\ results' = <<>>
    /\ UNCHANGED <<init_gen_weights, init_disc_weights, quiet_gen, quiet_disc,
                   opt_iterations, pc, todo, running, tape, gate_ix, dev_state, error>>

\* print(...) of a print cell; the next cell follows (a loop starts at step 0)
FinishPrint ==
    /\ stmt = "print"
    /\ running = "none"
    /\ todo = <<>>
    /\ pc' = NextCell(pc)
    /\ step' = IF NextCell(pc) \in Loops THEN 0 ELSE step
    /\ stmt' = "none"
    /\ results' = <<>>
    /\ UNCHANGED <<init_gen_weights, init_disc_weights, gen_weights, disc_weights,
                   quiet_gen, quiet_disc, opt_iterations, todo, running, tape,
                   gate_ix, dev_state, reports, error>>

\* A circuit evaluation or the gradient computation raises
Raise ==
    /\ error = "none"
    /\ \/ running # "none"
       \/ (stmt = "minimize" /\ todo = <<>>)
    /\ error' \in ErrorKinds
    /\ pc' = OnError(pc)
    /\ stmt' = "none"
    /\ todo' = <<>>
    /\ running' = "none"
    /\ tape' = EmptyTape
    /\ gate_ix' = 0
    /\ results' = <<>>
    /\ UNCHANGED <<init_gen_weights, init_disc_weights, gen_weights, disc_weights,
                   quiet_gen, quiet_disc, opt_iterations, step, dev_state, reports>>

Next ==
    \/ StartMinimize
    \/ LoopExit
    \/ StartPrint
    \/ QNodeCall
    \/ ApplyGate
    \/ Measure
    \/ FinishMinimize
    \/ FinishReport
    \/ FinishPrint

Spec == Init /\ [][Next]_vars

NextFault == Next \/ Raise

SpecFault == Init /\ [][NextFault]_vars

----------------------------------------------------------------------------
(* Properties *)

\* Loop iterations whose optimizer step has been applied
Progress == step + (IF stmt = "report" THEN 1 ELSE 0)

IsDiscriminatorOp(g) == g.src = "discriminator"

IsGeneratorOp(g) == g.src = "generator"

\* The place of the first discriminator gate in a gate sequence
FirstDisc(g) ==
    CHOOSE k \in 1 .. (Len(g) + 1) :
        /\ \A j \in 1 .. (k - 1) : g[j].src # "discriminator"
        /\ (k <= Len(g) => g[k].src = "discriminator")

\* C1: throughout Phase D the generator parameter vector is the initial one:
\* the optimizer steps of Phase D change the discriminator vector only.
C1_GeneratorFrozenInPhaseD ==
    pc = "phaseD" => gen_weights = init_gen_weights

C1_Witness ==
    /\ pc = "phaseD"
    /\ step = NumStepsD
    /\ opt_iterations = NumStepsD
    /\ disc_weights # init_disc_weights

\* C2: no step that leaves the run outside Phase D changes the discriminator
\* parameter vector: in Phase G and up to the terminal state it keeps the
\* value the last Phase D step gave it.
C2_DiscriminatorFrozenAfterPhaseD ==
    [][pc' # "phaseD" => disc_weights' = disc_weights]_vars

C2_Witness ==
    /\ pc = "done"
    /\ gen_weights # init_gen_weights
    /\ disc_weights # init_disc_weights

\* C3: the number of optimizer steps applied is fixed by the position alone:
\* in Phase D it is the loop's progress (at most 50), between the phases it
\* is 50, in Phase G it is 50 plus the loop's progress (at most 50), and
\* from the end of Phase G to the terminal state it is 100.  So no Phase G
\* step precedes the 50th Phase D step, no Phase D step follows a Phase G
\* step, and this holds whatever the gradients were.
C3_OneAlternationFixedBudget ==
    CASE pc = "phaseD" ->
            /\ opt_iterations = Progress
            /\ Progress <= NumStepsD
      [] pc \in {"printRealTrue", "printFakeTrue"} ->
            opt_iterations = NumStepsD
      [] pc = "phaseG" ->
            /\ opt_iterations = NumStepsD + Progress
            /\ Progress <= NumStepsG
      [] OTHER ->
            opt_iterations = NumStepsD + NumStepsG

C3_Witness ==
    /\ pc = "done"
    /\ opt_iterations = NumStepsD + NumStepsG
    /\ stmt = "none"

\* C4: the run that reports its progress and the run that does not hold the
\* same generator and discriminator parameter vectors in every state.
C4_ReportingDoesNotChangeWeights ==
    /\ gen_weights = quiet_gen
    /\ disc_weights = quiet_disc

C4_Witness ==
    /\ pc = "done"
    /\ reports = (NumStepsD \div ReportEveryD) + (NumStepsG \div ReportEveryG)
    /\ gen_weights # init_gen_weights
    /\ disc_weights # init_disc_weights

\* C5: once an error has been raised, no step changes a parameter vector or
\* applies an optimizer step.
C5_ErrorIsFatal ==
    [][error # "none" =>
        UNCHANGED <<gen_weights, disc_weights, opt_iterations>>]_vars

C5_Witness ==
    /\ error # "none"
    /\ pc = "aborted"
    /\ opt_iterations > 0
    /\ opt_iterations < NumStepsD

\* C6: a composite circuit is one whole preparation circuit (real or
\* generator) followed by the whole discriminator and the reading of Pauli Z
\* on wire 2; the device applies the gates in that order and reads the
\* observable after the last discriminator gate; the preparation circuit
\* uses wire 0 and not wire 2, the discriminator wires 0 and 2 only.
C6_DiscriminatorFollowsPreparation ==
    /\ running \in Composite =>
        LET g == tape.gates
            k == FirstDisc(g)
            prep == SubSeq(g, 1, k - 1)
            disc == SubSeq(g, k, Len(g))
        IN /\ \/ prep = real(<<phi, theta, omega>>)
              \/ prep = generator(gen_weights)
           /\ disc = discriminator(disc_weights)
           /\ tape.obs = << PauliZ(2) >>
           /\ 0 \in WiresOfOps(prep)
           /\ 2 \notin WiresOfOps(prep)
           /\ WiresOfOps(disc) = {0, 2}
           /\ WiresOfOps(prep) \cap WiresOfOps(disc) = {0}
           /\ gate_ix <= Len(dev_state)
           /\ \A j \in 1 .. gate_ix :
                dev_state[Len(dev_state) - gate_ix + j] = g[j]
    /\ \A n \in 1 .. Len(results) :
        results[n].qnode \in Composite =>
            /\ results[n].state # <<>>
            /\ results[n].state[Len(results[n].state)].src = "discriminator"
            /\ Len(SelectSeq(results[n].state, IsDiscriminatorOp))
                    = Len(discriminator(disc_weights))
            /\ results[n].obs = << PauliZ(2) >>

C6_Witness ==
    /\ stmt = "minimize"
    /\ pc = "phaseD"
    /\ Len(results) = 2
    /\ results[1].qnode = "gen_disc_circuit"
    /\ results[2].qnode = "real_disc_circuit"

\* A gate sequence uses each index of the weight vector w on exactly one
\* rotation gate, and its other gates take no weight.
ParamOnce(ops, w) ==
    /\ \A i \in ParamIx :
        Cardinality({k \in 1 .. Len(ops) : ops[k].idx = i}) = 1
    /\ \A k \in 1 .. Len(ops) :
        \/ /\ ops[k].kind \in {"Hadamard", "CNOT"}
           /\ ops[k].idx = NoIndex
           /\ ops[k].params = <<>>
        \/ /\ ops[k].kind \in {"RX", "RY", "RZ"}
           /\ ops[k].idx \in ParamIx
           /\ ops[k].params = << w[ops[k].idx] >>

\* C8: in the generator and in the discriminator, as queued for an
\* evaluation, every weight index 0..8 is the angle of exactly one rotation
\* gate and Hadamard and CNOT take no weight.
C8_EachParameterOnOneGate ==
    /\ running \in {"gen_disc_circuit", "bloch_vector_generator"} =>
        /\ ParamOnce(SelectSeq(tape.gates, IsGeneratorOp), gen_weights)
        /\ Len(SelectSeq(tape.gates, IsGeneratorOp)) = 11
    /\ running \in Composite =>
        /\ ParamOnce(SelectSeq(tape.gates, IsDiscriminatorOp), disc_weights)
        /\ Len(SelectSeq(tape.gates, IsDiscriminatorOp)) = 11

C8_Witness ==
    /\ running = "gen_disc_circuit"
    /\ gate_ix = Len(tape.gates)
    /\ pc = "phaseG"
    /\ gen_weights # init_gen_weights

C10_WiresWithinRegister ==
    /\ \A q \in QNodes :
        LET t == Called(q, gen_weights, disc_weights) IN
        /\ \A k \in 1 .. Len(t.gates) :
            \A j \in 1 .. Len(t.gates[k].wires) :
                t.gates[k].wires[j] \in 0 .. (NumWires - 1)
        /\ \A k \in 1 .. Len(t.obs) : t.obs[k].wire \in 0 .. (NumWires - 1)
    /\ \A k \in 1 .. Len(tape.gates) :
        \A j \in 1 .. Len(tape.gates[k].wires) :
            tape.gates[k].wires[j] < NumWires
    /\ error # "InvalidWire"

C10_Witness ==
    /\ pc = "bloch"
    /\ Len(results) = 2
    /\ results[2].qnode = "bloch_vector_generator"
    /\ error = "none"

=============================================================================
